---- MODULE Spec2Model ----
(***************************************************************************)
(* Model of the webcam surveillance system (src/main.py): a capture thread *)
(* and a processing thread share a bounded queue.Queue and a               *)
(* threading.Event; the processing thread writes hour-rotated segments     *)
(* with one metadata file per segment; main starts and joins the threads.  *)
(*                                                                         *)
(* Frames are numbered in the order the device delivers them.  The clock   *)
(* (datetime.utcnow) is a non-decreasing count of clock ticks of           *)
(* 1/TicksPerSecond seconds.                                               *)
(***************************************************************************)
EXTENDS Integers, Sequences, FiniteSets, TLC

(* ------------------------------ bounds --------------------------------- *)
\* largest capacity of the frame buffer (BUFFER_SIZE is 128 in main.py:19; the
\* model runs the program with every capacity from 1 to MaxBufferSize)
MaxBufferSize == 2
\* number of frames the device delivers before every further read fails
MaxFrames == 3
\* number of times the clock advances
MaxTicks == 2
\* frame size in pixels (FRAME_WIDTH, FRAME_HEIGHT are 640 and 480 in
\* main.py:16-17)
FRAME_WIDTH == 5
FRAME_HEIGHT == 4
\* number of consecutive detect_motion calls of a classification run
MaxCalls == 3

(* ----------------------------- constants ------------------------------- *)
\* resolution of the model's clock: ticks per second (datetime has sub-second
\* resolution; strftime('%H%M%S') and timedelta.seconds drop it)
TicksPerSecond == 2
\* rotation interval of main.py:126, in seconds
RotationSeconds == 3600
\* timedelta normalises to (days, seconds, microseconds), 0 <= seconds < 86400
SecondsPerDay == 86400

\* MOTION_THRESHOLD of main.py:22, 0.05, in percent
MOTION_THRESHOLD_PCT == 5
\* cv2.threshold(frame_delta, 25, 255, cv2.THRESH_BINARY)
ThreshCutoff == 25
ThreshMaxval == 255

\* the amounts by which the clock advances between two observations:
\* half a second, half an interval, 0.7 interval, one day
ClockSteps ==
    { 1,
      (RotationSeconds * TicksPerSecond) \div 2,
      (7 * RotationSeconds * TicksPerSecond) \div 10,
      SecondsPerDay * TicksPerSecond }

VARIABLES
    BUFFER_SIZE,      \* the configured capacity, fixed for a run
    frame_buffer,     \* queue.Queue contents, oldest first
    shutdown_event,   \* threading.Event
    pc_m,             \* main control path
    pc_c,             \* capture thread
    cap,              \* the cv2.VideoCapture: none, open, failed, released
    c_frame,          \* capture thread's local `frame`
    nread,            \* number of frames the device has delivered
    pc_p,             \* processing thread
    p_frame,          \* processing thread's local `frame`
    current_time,     \* start time of the active segment
    metadata_path,    \* name of the active segment's metadata file
    metadata_list,    \* records of the active segment
    video_files,      \* every cv2.VideoWriter created: path, frames, released
    metadata_writes,  \* every open(metadata_path,'w')+json.dump: path, content
    now,              \* the clock
    nticks,           \* number of clock advances so far
    put_log,          \* history: frames admitted by frame_buffer.put, in order
    take_log,         \* history: frames returned by frame_buffer.get (line 112)
    run_puts,         \* history: frames put since the last take of line 112
    previous_gray,    \* detect_motion's baseline (global previous_gray)
    m_input,          \* classification run: the frames passed to detect_motion
    m_output,         \* classification run: the results returned so far
    puts_after_set,   \* history: frames put since shutdown_event was set
    handled_after_set \* history: frames handled since shutdown_event was set

vars == << BUFFER_SIZE, frame_buffer, shutdown_event, pc_m, pc_c, cap,
           c_frame, nread, pc_p, p_frame, current_time, metadata_path,
           metadata_list,
           video_files, metadata_writes, now, nticks, put_log, take_log,
           run_puts, previous_gray, m_input, m_output, puts_after_set,
           handled_after_set >>

shared_vars == << frame_buffer, shutdown_event >>
main_vars == << pc_m >>
capture_vars == << pc_c, cap, c_frame, nread >>
process_vars == << pc_p, p_frame, current_time, metadata_path, metadata_list,
                   video_files, metadata_writes >>
clock_vars == << now, nticks >>
log_vars == << put_log, take_log, run_puts >>
run_vars == << m_input, m_output >>
cancel_vars == << puts_after_set, handled_after_set >>

NoFrame == 0

(* --------------------------- pure helpers ------------------------------ *)
\* the last n elements of s (all of s when it is shorter)
LastN(s, n) ==
    IF Len(s) <= n THEN s ELSE SubSeq(s, Len(s) - n + 1, Len(s))

\* Queue(maxsize=BUFFER_SIZE)
QueueMaxsize_offByOne == BUFFER_SIZE + 1
QueueMaxsize == BUFFER_SIZE

\* Queue.full(): 0 < maxsize <= qsize
full(q) == 0 < QueueMaxsize /\ QueueMaxsize <= Len(q)

\* Queue.empty()
empty(q) == Len(q) = 0

\* Queue.put blocks while the queue is full
CanPut(q) == ~full(q)

\* the queue left behind by get / get_nowait: the oldest item is removed
QueueRest_newest(q) == SubSeq(q, 1, Len(q) - 1)
QueueRest(q) == Tail(q)

\* the item get returns: the oldest
QueueItem_newest(q) == q[Len(q)]
QueueItem(q) == Head(q)

\* strftime('%Y%m%d_%H%M%S'): the instant truncated to whole seconds
strftime(t) == t \div TicksPerSecond

\* (a - b).seconds of a timedelta: the seconds field after normalisation to
\* days + seconds + microseconds, so whole days are not part of it
TimedeltaSeconds(a, b) == ((a - b) \div TicksPerSecond) % SecondsPerDay

\* the condition of line 126
RotationDue_halfInterval(t, start) ==
    2 * TimedeltaSeconds(t, start) >= RotationSeconds
RotationDue(t, start) == TimedeltaSeconds(t, start) >= RotationSeconds

(* -------------------------- motion detection --------------------------- *)
\* the pixel positions of a frame, <<row, column>>
Pixels == (1..FRAME_HEIGHT) \X (1..FRAME_WIDTH)

\* previous_gray = None
NoGray == << >>

\* the scenes the camera can show, as BGR colours of the background and of
\* one spot: black, a bright spot, a dim spot, blue, two dark greys
Scenes ==
    << [bg |-> <<0, 0, 0>>,     spot |-> <<0, 0, 0>>],
       [bg |-> <<0, 0, 0>>,     spot |-> <<255, 255, 255>>],
       [bg |-> <<0, 0, 0>>,     spot |-> <<120, 120, 120>>],
       [bg |-> <<255, 0, 0>>,   spot |-> <<255, 0, 0>>],
       [bg |-> <<25, 25, 25>>,  spot |-> <<25, 25, 25>>],
       [bg |-> <<26, 26, 26>>,  spot |-> <<26, 26, 26>>] >>
NScenes == Len(Scenes)
SpotAt == <<1, 1>>

\* the BGR image of frame f: the device cycles through the scenes
FrameImage(f) ==
    LET s == Scenes[((f - 1) % NScenes) + 1]
    IN  [p \in Pixels |-> IF p = SpotAt THEN s.spot ELSE s.bg]

\* cv2.cvtColor(frame, cv2.COLOR_BGR2GRAY) on 8-bit pixels:
\* (1868 B + 9617 G + 4899 R + 2^13) >> 14
cvtColor_blueOnly(img) == [p \in Pixels |-> img[p][1]]
cvtColor(img) ==
    [p \in Pixels |->
        (1868 * img[p][1] + 9617 * img[p][2] + 4899 * img[p][3] + 8192)
            \div 16384]

\* the smoothing kernel, one dimension; main.py uses a 21 x 21 Gaussian
KernelWeights == <<1, 2, 1>>
KernelRadius == (Len(KernelWeights) - 1) \div 2
KernelSum == 16

\* BORDER_REFLECT_101: index i of 1..n mirrored at the border
Reflect101(i, n) == IF i < 1 THEN 2 - i ELSE IF i > n THEN 2 * n - i ELSE i

RECURSIVE SumOver(_, _, _)
\* the sum of F[x] over the finite set S, added to acc
SumOver(F, S, acc) ==
    IF S = {} THEN acc
    ELSE LET x == CHOOSE y \in S : TRUE
         IN  SumOver(F, S \ {x}, acc + F[x])

\* cv2.GaussianBlur(gray, ksize, 0): weighted mean of the neighbourhood,
\* rounded to the nearest integer
GaussianBlur_none(g) == g
GaussianBlur(g) ==
    LET Reach == -KernelRadius..KernelRadius
        Offsets == Reach \X Reach
        Term(p) ==
            [d \in Offsets |->
                KernelWeights[d[1] + KernelRadius + 1]
                  * KernelWeights[d[2] + KernelRadius + 1]
                  * g[<<Reflect101(p[1] + d[1], FRAME_HEIGHT),
                        Reflect101(p[2] + d[2], FRAME_WIDTH)>>]]
    IN  [p \in Pixels |->
            (SumOver(Term(p), Offsets, 0) + KernelSum \div 2) \div KernelSum]

\* lines 81-82 for every scene, computed once
GrayOfScene == [k \in 1..NScenes |-> GaussianBlur(cvtColor(FrameImage(k)))]

\* gray after lines 81-82
Gray(f) == GrayOfScene[((f - 1) % NScenes) + 1]

\* cv2.absdiff
absdiff(a, b) ==
    [p \in Pixels |-> IF a[p] >= b[p] THEN a[p] - b[p] ELSE b[p] - a[p]]

\* cv2.threshold(src, 25, 255, cv2.THRESH_BINARY)[1]
threshold(src) ==
    [p \in Pixels |-> IF src[p] > ThreshCutoff THEN ThreshMaxval ELSE 0]

\* cv2.countNonZero
countNonZero(img) == Cardinality({p \in Pixels : img[p] # 0})

\* motion_area > FRAME_WIDTH * FRAME_HEIGHT * MOTION_THRESHOLD
OverThreshold_orEqual(motion_area) ==
    motion_area * 100 >= FRAME_WIDTH * FRAME_HEIGHT * MOTION_THRESHOLD_PCT
OverThreshold(motion_area) ==
    motion_area * 100 > FRAME_WIDTH * FRAME_HEIGHT * MOTION_THRESHOLD_PCT

\* the value detect_motion(frame) returns with baseline prev
motion_detected_firstCompared(prev, f) ==
    OverThreshold(countNonZero(threshold(absdiff(
        IF prev = NoGray THEN GrayOfScene[1] ELSE prev, Gray(f)))))
motion_detected(prev, f) ==
    IF prev = NoGray THEN FALSE
    ELSE OverThreshold(countNonZero(threshold(absdiff(prev, Gray(f)))))

\* the value detect_motion(frame) leaves in previous_gray
NewBaseline_keptOnMotion(prev, f) ==
    IF prev # NoGray /\ motion_detected(prev, f) THEN prev ELSE Gray(f)
NewBaseline(prev, f) == Gray(f)

(* ------------------------------- Init ---------------------------------- *)
ProgramInit ==
    /\ BUFFER_SIZE \in 1..MaxBufferSize
    /\ frame_buffer = << >>
    /\ shutdown_event = FALSE
    /\ pc_m = "start_capture"
    /\ pc_c = "not_started"
    /\ cap = "none"
    /\ c_frame = NoFrame
    /\ nread = 0
    /\ pc_p = "not_started"
    /\ p_frame = NoFrame
    /\ current_time = 0
    /\ metadata_path = 0
    /\ metadata_list = << >>
    /\ video_files = << >>
    /\ metadata_writes = << >>
    /\ now = 0
    /\ nticks = 0
    /\ put_log = << >>
    /\ take_log = << >>
    /\ run_puts = << >>
    /\ previous_gray = NoGray
    /\ puts_after_set = 0
    /\ handled_after_set = 0

\* the program as main() starts it
Init ==
    /\ ProgramInit
    /\ m_input = << >>
    /\ m_output = << >>

(* ------------------------- segment bookkeeping ------------------------- *)
\* cv2.VideoWriter(str(video_path), ...): a new, open, empty video file
NewVideo(t) == [path |-> strftime(t), frames |-> << >>, released |-> FALSE]

\* out.write(frame) on the writer created last
WriteFrame_dropped(vs, f) == vs
WriteFrame(vs, f) ==
    [vs EXCEPT ![Len(vs)].frames = Append(@, f)]

\* out.release() on the writer created last
Release(vs) ==
    [vs EXCEPT ![Len(vs)].released = TRUE]

\* with open(metadata_path,'w') as f: json.dump(metadata_list, f)
DumpMetadata(ws, path, list) ==
    Append(ws, [path |-> path, content |-> list])

\* the MetadataRecord of lines 120-123; `frame` identifies the frame that
\* detect_motion classified for the record
MetadataRecord(t, f, m) ==
    [timestamp |-> t, frame |-> f, motion_detected |-> m]

(* ------------------------------ signals -------------------------------- *)
\* handle_signal (SIGINT / SIGTERM), delivered while the process runs
HandleSignal ==
    /\ pc_m # "done"
    /\ shutdown_event' = TRUE
    /\ UNCHANGED << BUFFER_SIZE, cancel_vars,
                    previous_gray, run_vars, frame_buffer,
                    main_vars, capture_vars, process_vars, clock_vars,
                    log_vars >>

(* -------------------------------- main --------------------------------- *)
\* capture_thread.start()
MainStartCapture ==
    /\ pc_m = "start_capture"
    /\ pc_m' = "start_process"
    /\ pc_c' = "open"
    /\ UNCHANGED << BUFFER_SIZE, cancel_vars,
                    previous_gray, run_vars, shared_vars, cap,
                    c_frame, nread, process_vars, clock_vars, log_vars >>

\* process_thread.start()
MainStartProcess ==
    /\ pc_m = "start_process"
    /\ pc_m' = "wait"
    /\ pc_p' = "init"
    /\ UNCHANGED << BUFFER_SIZE, cancel_vars,
                    previous_gray, run_vars, shared_vars,
                    capture_vars, p_frame, current_time, metadata_path,
                    metadata_list, video_files, metadata_writes, clock_vars,
                    log_vars >>

\* while not shutdown_event.is_set(): shutdown_event.wait(timeout=1.0)
\* the loop is left once the event is set; a wait that times out changes nothing
MainWait ==
    /\ pc_m = "wait"
    /\ shutdown_event
    /\ pc_m' = "join_capture"
    /\ UNCHANGED << BUFFER_SIZE, cancel_vars,
                    previous_gray, run_vars, shared_vars,
                    capture_vars, process_vars, clock_vars, log_vars >>

\* capture_thread.join()
MainJoinCapture ==
    /\ pc_m = "join_capture"
    /\ pc_c = "done"
    /\ pc_m' = "join_process"
    /\ UNCHANGED << BUFFER_SIZE, cancel_vars,
                    previous_gray, run_vars, shared_vars,
                    capture_vars, process_vars, clock_vars, log_vars >>

\* process_thread.join(); print("System shutdown complete.")
MainJoinProcess_noWait ==
    /\ pc_m = "join_process"
    /\ pc_m' = "done"
    /\ UNCHANGED << BUFFER_SIZE, cancel_vars,
                    previous_gray, run_vars, shared_vars,
                    capture_vars, process_vars, clock_vars, log_vars >>
MainJoinProcess ==
    /\ pc_m = "join_process"
    /\ pc_p = "done"
    /\ pc_m' = "done"
    /\ UNCHANGED << BUFFER_SIZE, cancel_vars,
                    previous_gray, run_vars, shared_vars,
                    capture_vars, process_vars, clock_vars, log_vars >>

(* ------------------------------ capture -------------------------------- *)
\* cv2.VideoCapture(...); if not cap.isOpened(): shutdown_event.set(); return
CaptureOpen_noSet ==
    /\ pc_c = "open"
    /\ \E opened \in BOOLEAN :
          IF opened
          THEN /\ pc_c' = "loop"
               /\ cap' = "open"
          ELSE /\ pc_c' = "done"
               /\ cap' = "failed"
    /\ UNCHANGED << BUFFER_SIZE, cancel_vars,
                    previous_gray, run_vars, shared_vars,
                    main_vars, c_frame, nread, process_vars, clock_vars,
                    log_vars >>
CaptureOpen ==
    /\ pc_c = "open"
    /\ \E opened \in BOOLEAN :
          IF opened
          THEN /\ pc_c' = "loop"
               /\ cap' = "open"
               /\ UNCHANGED shutdown_event
          ELSE /\ pc_c' = "done"
               /\ cap' = "failed"
               /\ shutdown_event' = TRUE
    /\ UNCHANGED << BUFFER_SIZE, cancel_vars,
                    previous_gray, run_vars, frame_buffer,
                    main_vars, c_frame, nread, process_vars, clock_vars,
                    log_vars >>

\* while not shutdown_event.is_set(): ... ; cap.release()
CaptureLoop ==
    /\ pc_c = "loop"
    /\ IF shutdown_event
       THEN pc_c' = "done" /\ cap' = "released"
       ELSE pc_c' = "read" /\ UNCHANGED cap
    /\ UNCHANGED << BUFFER_SIZE, cancel_vars,
                    previous_gray, run_vars, shared_vars,
                    main_vars, c_frame, nread, process_vars, clock_vars,
                    log_vars >>

\* ret, frame = cap.read(); if not ret: continue
\* a failed read returns (False, None)
CaptureRead_fatal ==
    /\ pc_c = "read"
    /\ \E ret \in BOOLEAN :
          IF ret
          THEN /\ nread < MaxFrames
               /\ nread' = nread + 1
               /\ c_frame' = nread + 1
               /\ pc_c' = "full_check"
               /\ UNCHANGED shutdown_event
          ELSE /\ pc_c' = "done"
               /\ c_frame' = NoFrame
               /\ shutdown_event' = TRUE
               /\ UNCHANGED nread
    /\ UNCHANGED << BUFFER_SIZE, cancel_vars,
                    previous_gray, run_vars, frame_buffer,
                    main_vars, cap, process_vars, clock_vars, log_vars >>
CaptureRead ==
    /\ pc_c = "read"
    /\ \E ret \in BOOLEAN :
          IF ret
          THEN /\ nread < MaxFrames
               /\ nread' = nread + 1
               /\ c_frame' = nread + 1
               /\ pc_c' = "full_check"
          ELSE /\ pc_c' = "loop"
               /\ c_frame' = NoFrame
               /\ UNCHANGED nread
    /\ UNCHANGED << BUFFER_SIZE, cancel_vars,
                    previous_gray, run_vars, shared_vars,
                    main_vars, cap, process_vars, clock_vars, log_vars >>

\* if frame_buffer.full():
CaptureFullCheck_never ==
    /\ pc_c = "full_check"
    /\ pc_c' = "put"
    /\ UNCHANGED << BUFFER_SIZE, cancel_vars,
                    previous_gray, run_vars, shared_vars,
                    main_vars, cap, c_frame, nread, process_vars, clock_vars,
                    log_vars >>
CaptureFullCheck ==
    /\ pc_c = "full_check"
    /\ pc_c' = IF full(frame_buffer) THEN "discard" ELSE "put"
    /\ UNCHANGED << BUFFER_SIZE, cancel_vars,
                    previous_gray, run_vars, shared_vars,
                    main_vars, cap, c_frame, nread, process_vars, clock_vars,
                    log_vars >>

\* try: frame_buffer.get_nowait()  # discard oldest
\* except Empty: pass
CaptureDiscard ==
    /\ pc_c = "discard"
    /\ frame_buffer' = IF empty(frame_buffer) THEN frame_buffer
                       ELSE QueueRest(frame_buffer)
    /\ pc_c' = "put"
    /\ UNCHANGED << BUFFER_SIZE, cancel_vars,
                    previous_gray, run_vars, shutdown_event,
                    main_vars, cap, c_frame, nread, process_vars, clock_vars,
                    log_vars >>

\* frame_buffer.put(frame): blocks while the queue is full
CapturePut ==
    /\ pc_c = "put"
    /\ CanPut(frame_buffer)
    /\ frame_buffer' = Append(frame_buffer, c_frame)
    /\ put_log' = Append(put_log, c_frame)
    /\ run_puts' = Append(run_puts, c_frame)
    /\ puts_after_set' = puts_after_set + (IF shutdown_event THEN 1 ELSE 0)
    /\ pc_c' = "loop"
    /\ UNCHANGED << BUFFER_SIZE, handled_after_set,
                    previous_gray, run_vars, shutdown_event,
                    main_vars, cap, c_frame, nread, process_vars, clock_vars,
                    take_log >>

(* ----------------------------- processing ------------------------------ *)
\* lines 99-106: the first segment, named from the current time
ProcessInit ==
    /\ pc_p = "init"
    /\ current_time' = now
    /\ metadata_path' = strftime(now)
    /\ video_files' = << NewVideo(now) >>
    /\ metadata_list' = << >>
    /\ pc_p' = "loop"
    /\ UNCHANGED << BUFFER_SIZE, cancel_vars,
                    previous_gray, run_vars, shared_vars,
                    main_vars, capture_vars, p_frame, metadata_writes,
                    clock_vars, log_vars >>

\* while not shutdown_event.is_set():
ProcessLoop_drain ==
    /\ pc_p = "loop"
    /\ pc_p' = IF shutdown_event /\ empty(frame_buffer) THEN "flush"
                ELSE "empty_check"
    /\ UNCHANGED << BUFFER_SIZE, cancel_vars,
                    previous_gray, run_vars, shared_vars,
                    main_vars, capture_vars, p_frame, current_time,
                    metadata_path, metadata_list, video_files,
                    metadata_writes, clock_vars, log_vars >>
ProcessLoop ==
    /\ pc_p = "loop"
    /\ pc_p' = IF shutdown_event THEN "flush" ELSE "empty_check"
    /\ UNCHANGED << BUFFER_SIZE, cancel_vars,
                    previous_gray, run_vars, shared_vars,
                    main_vars, capture_vars, p_frame, current_time,
                    metadata_path, metadata_list, video_files,
                    metadata_writes, clock_vars, log_vars >>

\* if frame_buffer.empty(): continue
ProcessEmptyCheck_noCheck ==
    /\ pc_p = "empty_check"
    /\ pc_p' = "get"
    /\ UNCHANGED << BUFFER_SIZE, cancel_vars,
                    previous_gray, run_vars, shared_vars,
                    main_vars, capture_vars, p_frame, current_time,
                    metadata_path, metadata_list, video_files,
                    metadata_writes, clock_vars, log_vars >>
ProcessEmptyCheck ==
    /\ pc_p = "empty_check"
    /\ pc_p' = IF empty(frame_buffer) THEN "loop" ELSE "get"
    /\ UNCHANGED << BUFFER_SIZE, cancel_vars,
                    previous_gray, run_vars, shared_vars,
                    main_vars, capture_vars, p_frame, current_time,
                    metadata_path, metadata_list, video_files,
                    metadata_writes, clock_vars, log_vars >>

\* frame = frame_buffer.get(): blocks while the queue is empty
ProcessGet ==
    /\ pc_p = "get"
    /\ ~empty(frame_buffer)
    /\ p_frame' = QueueItem(frame_buffer)
    /\ frame_buffer' = QueueRest(frame_buffer)
    /\ take_log' = Append(take_log, QueueItem(frame_buffer))
    /\ run_puts' = << >>
    /\ pc_p' = "handle"
    /\ UNCHANGED << BUFFER_SIZE, cancel_vars,
                    previous_gray, run_vars, shutdown_event,
                    main_vars, capture_vars, current_time, metadata_path,
                    metadata_list, video_files, metadata_writes, clock_vars,
                    put_log >>

\* lines 113-123: timestamp, detect_motion, out.write, metadata_list.append
ProcessHandle ==
    /\ pc_p = "handle"
    /\ previous_gray' = NewBaseline(previous_gray, p_frame)
    /\ video_files' = WriteFrame(video_files, p_frame)
    /\ metadata_list' =
          Append(metadata_list,
                 MetadataRecord(now, p_frame,
                                motion_detected(previous_gray, p_frame)))
    /\ handled_after_set' =
          handled_after_set + (IF shutdown_event THEN 1 ELSE 0)
    /\ pc_p' = "rotation_check"
    /\ UNCHANGED << BUFFER_SIZE, puts_after_set,
                    run_vars, shared_vars, main_vars,
                    capture_vars, p_frame, current_time, metadata_path,
                    metadata_writes, clock_vars, log_vars >>

\* if (datetime.utcnow() - current_time).seconds >= 3600:
ProcessRotationCheck ==
    /\ pc_p = "rotation_check"
    /\ pc_p' = IF RotationDue(now, current_time) THEN "rotate" ELSE "loop"
    /\ UNCHANGED << BUFFER_SIZE, cancel_vars,
                    previous_gray, run_vars, shared_vars,
                    main_vars, capture_vars, p_frame, current_time,
                    metadata_path, metadata_list, video_files,
                    metadata_writes, clock_vars, log_vars >>

\* lines 128-137: dump the metadata, start a new segment at the current time
ProcessRotate_keepList ==
    /\ pc_p = "rotate"
    /\ metadata_writes' = DumpMetadata(metadata_writes, metadata_path,
                                       metadata_list)
    /\ current_time' = now
    /\ metadata_path' = strftime(now)
    /\ video_files' = Append(Release(video_files), NewVideo(now))
    /\ pc_p' = "loop"
    /\ UNCHANGED << BUFFER_SIZE, cancel_vars,
                    previous_gray, run_vars, shared_vars,
                    main_vars, capture_vars, p_frame, metadata_list,
                    clock_vars, log_vars >>
ProcessRotate ==
    /\ pc_p = "rotate"
    /\ metadata_writes' = DumpMetadata(metadata_writes, metadata_path,
                                       metadata_list)
    /\ current_time' = now
    /\ metadata_path' = strftime(now)
    /\ video_files' = Append(Release(video_files), NewVideo(now))
    /\ metadata_list' = << >>
    /\ pc_p' = "loop"
    /\ UNCHANGED << BUFFER_SIZE, cancel_vars,
                    previous_gray, run_vars, shared_vars,
                    main_vars, capture_vars, p_frame, clock_vars, log_vars >>

\* lines 140-143: dump the remaining metadata, release the writer
ProcessFlush_skipEmpty ==
    /\ pc_p = "flush"
    /\ metadata_writes' = IF metadata_list = << >> THEN metadata_writes
                          ELSE DumpMetadata(metadata_writes, metadata_path,
                                            metadata_list)
    /\ video_files' = Release(video_files)
    /\ pc_p' = "done"
    /\ UNCHANGED << BUFFER_SIZE, cancel_vars,
                    previous_gray, run_vars, shared_vars,
                    main_vars, capture_vars, p_frame, current_time,
                    metadata_path, metadata_list, clock_vars, log_vars >>
ProcessFlush ==
    /\ pc_p = "flush"
    /\ metadata_writes' = DumpMetadata(metadata_writes, metadata_path,
                                       metadata_list)
    /\ video_files' = Release(video_files)
    /\ pc_p' = "done"
    /\ UNCHANGED << BUFFER_SIZE, cancel_vars,
                    previous_gray, run_vars, shared_vars,
                    main_vars, capture_vars, p_frame, current_time,
                    metadata_path, metadata_list, clock_vars, log_vars >>

(* ------------------------------- clock --------------------------------- *)
\* time passes between two calls of datetime.utcnow()
Tick ==
    /\ nticks < MaxTicks
    /\ pc_p \notin {"not_started", "done"}
    /\ \E d \in ClockSteps : now' = now + d
    /\ nticks' = nticks + 1
    /\ UNCHANGED << BUFFER_SIZE, cancel_vars,
                    previous_gray, run_vars, shared_vars,
                    main_vars, capture_vars, process_vars, log_vars >>

(* ---------------------------- specification ---------------------------- *)
MainNext ==
    \/ MainStartCapture
    \/ MainStartProcess
    \/ MainWait
    \/ MainJoinCapture
    \/ MainJoinProcess

CaptureNext ==
    \/ CaptureOpen
    \/ CaptureLoop
    \/ CaptureRead
    \/ CaptureFullCheck
    \/ CaptureDiscard
    \/ CapturePut

ProcessNext ==
    \/ ProcessInit
    \/ ProcessLoop
    \/ ProcessEmptyCheck
    \/ ProcessGet
    \/ ProcessHandle
    \/ ProcessRotationCheck
    \/ ProcessRotate
    \/ ProcessFlush

Next ==
    \/ HandleSignal
    \/ MainNext
    \/ CaptureNext
    \/ ProcessNext
    \/ Tick

Spec == Init /\ [][Next]_vars

\* a whole rotation interval passes between two calls of datetime.utcnow()
TickInterval ==
    /\ nticks < MaxTicks
    /\ pc_p \notin {"not_started", "done"}
    /\ now' = now + RotationSeconds * TicksPerSecond
    /\ nticks' = nticks + 1
    /\ UNCHANGED << BUFFER_SIZE, cancel_vars,
                    previous_gray, run_vars, shared_vars,
                    main_vars, capture_vars, process_vars, log_vars >>

LongRunNext ==
    \/ Next
    \/ TickInterval

\* the program running long enough for a segment to follow a rotated one
LongRunSpec == Init /\ [][LongRunNext]_vars

\* one call detect_motion(frame) of a classification run
Classify ==
    /\ Len(m_output) < Len(m_input)
    /\ LET frame == m_input[Len(m_output) + 1]
       IN  /\ m_output' = Append(m_output,
                                 motion_detected(previous_gray, frame))
           /\ previous_gray' = NewBaseline(previous_gray, frame)
    /\ UNCHANGED << BUFFER_SIZE, cancel_vars,
                    m_input, shared_vars, main_vars,
                    capture_vars, process_vars, clock_vars, log_vars >>

\* detect_motion called on every sequence of MaxCalls frames
MotionInit ==
    /\ ProgramInit
    /\ m_input \in [1..MaxCalls -> 1..NScenes]
    /\ m_output = << >>

MotionNext == Classify

MotionSpec == MotionInit /\ [][MotionNext]_vars

\* every thread that can take a step eventually takes one
LiveSpec ==
    /\ Init
    /\ [][Next]_vars
    /\ WF_vars(MainNext)
    /\ WF_vars(CaptureNext)
    /\ WF_vars(ProcessNext)

TypeOK ==
    /\ Len(frame_buffer) <= MaxFrames
    /\ shutdown_event \in BOOLEAN
    /\ nread \in 0..MaxFrames
    /\ nticks \in 0..MaxTicks
    /\ BUFFER_SIZE \in 1..MaxBufferSize

(* ======================= properties of the claims ====================== *)
RECURSIVE IsSubseq(_, _)
\* s can be obtained from t by deleting elements
IsSubseq(s, t) ==
    IF s = << >> THEN TRUE
    ELSE IF t = << >> THEN FALSE
    ELSE IF Head(s) = Head(t) THEN IsSubseq(Tail(s), Tail(t))
    ELSE IsSubseq(s, Tail(t))

RECURSIVE Flatten(_)
\* the concatenation of the contents of a sequence of metadata writes
Flatten(ws) ==
    IF ws = << >> THEN << >> ELSE Head(ws).content \o Flatten(Tail(ws))

\* the frames, and the timestamps, of a list of metadata records
FramesOf(list) == [i \in 1..Len(list) |-> list[i].frame]
TimesOf(list) == [i \in 1..Len(list) |-> list[i].timestamp]

\* an instant given in seconds, in clock ticks
Seconds(n) == n * TicksPerSecond

\* the time elapsed from start to t is at least the rotation interval
IntervalElapsed(t, start) == t - start >= Seconds(RotationSeconds)

(* C1: in every reachable state the frame buffer holds at most BUFFER_SIZE  *)
(* frames, whatever the interleaving of the two workers.                    *)
C1_BufferBounded == Len(frame_buffer) <= BUFFER_SIZE

\* the buffer is at capacity after the capture worker has overflowed it
C1_Witness ==
    /\ Len(frame_buffer) = BUFFER_SIZE
    /\ Len(put_log) > BUFFER_SIZE

(* C2: the capture worker discards a buffered frame only when the buffer    *)
(* holds exactly BUFFER_SIZE frames at the instant of the discard.          *)
C2_DiscardOnlyWhenFull ==
    [][ (pc_c = "discard" /\ pc_c' = "put"
            /\ Len(frame_buffer') < Len(frame_buffer))
        => Len(frame_buffer) = BUFFER_SIZE ]_vars

(* C3: the frames the processing worker takes form a subsequence of the     *)
(* frames the capture worker put: order is kept and no frame is taken twice.*)
C3_TakesAreSubsequence == IsSubseq(take_log, put_log)

\* two frames were taken and a frame put between them was lost
C3_Witness ==
    /\ Len(take_log) >= 2
    /\ \E i \in 1..Len(put_log) :
          /\ put_log[i] > take_log[1]
          /\ put_log[i] < take_log[Len(take_log)]
          /\ \A j \in 1..Len(take_log) : take_log[j] # put_log[i]

(* C4: whenever the capture worker is about to execute the blocking put,    *)
(* the buffer holds fewer than BUFFER_SIZE frames, so the put never blocks. *)
C4_PutNeverBlocks ==
    pc_c = "put" => Len(frame_buffer) < BUFFER_SIZE

\* about to put after the full-check found the buffer full
C4_Witness ==
    /\ pc_c = "put"
    /\ Len(put_log) >= BUFFER_SIZE
    /\ Len(frame_buffer) = BUFFER_SIZE - 1

(* C5: after more than BUFFER_SIZE puts with no intervening take, the       *)
(* buffer holds exactly the BUFFER_SIZE most recently put frames, in order. *)
C5_SurvivorsAreMostRecent ==
    (pc_c # "put" /\ Len(run_puts) > BUFFER_SIZE)
        => frame_buffer = LastN(run_puts, BUFFER_SIZE)

\* more than BUFFER_SIZE puts completed since the last take
C5_Witness ==
    /\ pc_c = "loop"
    /\ Len(run_puts) > BUFFER_SIZE
    /\ Len(take_log) = 0

(* C6: with frames handled at times 0, 0.5 R and 1.2 R in a segment started *)
(* at time 0, exactly one rotation occurs, the first segment's metadata has *)
(* 2 records and the second segment's has 1 at shutdown: the frame handled  *)
(* once R has elapsed is recorded in the new segment.                       *)
C6_ThirdFrameInNewSegment ==
    ( /\ pc_p = "done"
      /\ metadata_writes[1].path = strftime(0)
      /\ TimesOf(Flatten(metadata_writes))
            = << 0, Seconds(RotationSeconds) \div 2,
                 (12 * Seconds(RotationSeconds)) \div 10 >> )
    => /\ Len(metadata_writes) = 2
       /\ Len(metadata_writes[1].content) = 2
       /\ Len(metadata_writes[2].content) = 1

(* C7: whenever the processing worker performs its rotation check and the   *)
(* time elapsed since the segment's start is at least the rotation          *)
(* interval, it rotates, for every elapsed value, 24 hours or more included.*)
C7_RotatesWheneverDue ==
    [][ (pc_p = "rotation_check" /\ pc_p' # "rotation_check"
            /\ IntervalElapsed(now, current_time))
        => pc_p' = "rotate" ]_vars

(* C8: when the processing worker has shut down, each segment's metadata    *)
(* file has been written exactly once and holds exactly the records         *)
(* appended while that segment was active, in order; no record is in two    *)
(* files and none is missing.                                               *)
C8_OneFilePerSegment ==
    pc_p = "done" =>
        /\ Len(metadata_writes) = Len(video_files)
        /\ \A i \in 1..Len(metadata_writes) :
              /\ metadata_writes[i].path = video_files[i].path
              /\ FramesOf(metadata_writes[i].content) = video_files[i].frames
              /\ \A j \in 1..Len(metadata_writes) :
                    metadata_writes[i].path = metadata_writes[j].path => i = j
        /\ FramesOf(Flatten(metadata_writes)) = take_log

\* shut down after a rotation, with records in both segments
C8_Witness ==
    /\ pc_p = "done"
    /\ Len(metadata_writes) = 2
    /\ metadata_writes[1].content # << >>
    /\ metadata_writes[2].content # << >>

\* the processing worker has written the active segment's metadata file, once,
\* with the records accumulated since the last rotation, and closed the writer
FlushedAndClosed ==
    /\ pc_p = "done"
    /\ metadata_writes # << >>
    /\ metadata_writes[Len(metadata_writes)]
          = [path |-> metadata_path, content |-> metadata_list]
    /\ \A i \in 1..(Len(metadata_writes) - 1) :
          metadata_writes[i].path # metadata_path
    /\ video_files[Len(video_files)].released

(* C9: once the cancellation signal is set, the processing worker eventually*)
(* writes the active segment's metadata file exactly once with all records  *)
(* accumulated since the last rotation and closes the video writer, also    *)
(* when there are no such records.                                          *)
C9_ShutdownFlushes == shutdown_event ~> FlushedAndClosed

\* shut down right after a rotation: the last file holds an empty array
C9_Witness ==
    /\ FlushedAndClosed
    /\ Len(metadata_writes) = 2
    /\ metadata_list = << >>

(* C10: after the cancellation signal is set, the capture worker, the       *)
(* processing worker and main all eventually terminate; the processing      *)
(* worker never stays blocked in its get.                                   *)
C10_AllTerminate ==
    shutdown_event ~> (pc_c = "done" /\ pc_p = "done" /\ pc_m = "done")

\* the processing worker is blocked in get on an empty buffer after the signal
C10_Witness ==
    /\ shutdown_event
    /\ pc_p = "get"
    /\ empty(frame_buffer)

(* C11: main does not reach its exit before both workers have terminated    *)
(* and the processing worker has completed its final metadata flush and     *)
(* writer close.                                                            *)
C11_ExitAfterWorkers ==
    pc_m = "done" => (pc_c = "done" /\ pc_p = "done" /\ FlushedAndClosed)

\* main has exited after frames were captured and handled
C11_Witness ==
    /\ pc_m = "done"
    /\ take_log # << >>

\* the one metadata file of a run in which no frame was handled
OnlyEmptyFile ==
    metadata_writes = << [path |-> metadata_path, content |-> << >>] >>

(* C12: if the capture device cannot be opened, the capture worker sets the *)
(* cancellation signal and terminates without ever putting a frame; the     *)
(* processing worker is not stopped by that step but observes the signal,   *)
(* flushes an empty metadata array and terminates, and then main exits.     *)
C12_OpenFailureShutsDown ==
    /\ [][ (cap # "failed" /\ cap' = "failed")
            => (shutdown_event' /\ pc_c' = "done" /\ pc_p' = pc_p) ]_vars
    /\ [] ( cap = "failed" =>
              /\ shutdown_event
              /\ pc_c = "done"
              /\ put_log = << >>
              /\ (pc_p = "done" => OnlyEmptyFile)
              /\ (pc_m = "done" => pc_p = "done") )
    /\ ( cap = "failed" ~> (pc_p = "done" /\ pc_m = "done") )

\* the device failed to open and the whole program has shut down
C12_Witness ==
    /\ cap = "failed"
    /\ pc_m = "done"
    /\ OnlyEmptyFile

(* C13: a failed frame read leaves the buffer and the cancellation signal   *)
(* unchanged (nothing is put, nothing is discarded) and the capture loop    *)
(* continues with its next iteration.                                       *)
C13_FailedReadIsTransient ==
    [][ (pc_c = "read" /\ pc_c' # "read" /\ c_frame' = NoFrame)
        => /\ pc_c' = "loop"
           /\ frame_buffer' = frame_buffer
           /\ put_log' = put_log
           /\ shutdown_event' = shutdown_event ]_vars

\* a read has failed after an earlier one succeeded, and the loop goes on
C13_Witness ==
    /\ pc_c = "read"
    /\ c_frame = NoFrame
    /\ nread > 0
    /\ ~shutdown_event

\* the filtered intensity of frame f: grayscale, then smoothed
Smoothed(f) == GaussianBlur(cvtColor(FrameImage(f)))

\* the number of pixels whose filtered intensities in frames a and b differ
\* by more than the cutoff
ChangedPixels(a, b) ==
    Cardinality({p \in Pixels :
        \/ Smoothed(a)[p] - Smoothed(b)[p] > ThreshCutoff
        \/ Smoothed(b)[p] - Smoothed(a)[p] > ThreshCutoff})

(* C14: the first classification of a run returns false for every input    *)
(* frame and stores that frame's filtered intensity as the baseline.        *)
C14_FirstCallFalse ==
    /\ Len(m_output) >= 1 => m_output[1] = FALSE
    /\ Len(m_output) = 1 => previous_gray = Smoothed(m_input[1])

\* the first call was made on a frame that is not black
C14_Witness ==
    /\ Len(m_output) = 1
    /\ Smoothed(m_input[1]) # Smoothed(1)

(* C15: for consecutive frames A then B, classify(B) is true if and only if *)
(* the number of pixels whose filtered intensities differ by more than the  *)
(* cutoff is strictly greater than threshold_fraction x width x height; a   *)
(* count equal to that product, and identical frames, give false.           *)
C15_StrictThreshold ==
    \A i \in 2..Len(m_output) :
        /\ m_output[i] <=>
              ( ChangedPixels(m_input[i - 1], m_input[i]) * 100
                  > MOTION_THRESHOLD_PCT * FRAME_WIDTH * FRAME_HEIGHT )
        /\ m_input[i - 1] = m_input[i] => ~m_output[i]

\* the count equals the threshold exactly and no motion is reported
C15_Witness ==
    /\ Len(m_output) = 2
    /\ ChangedPixels(m_input[1], m_input[2]) > 0
    /\ ChangedPixels(m_input[1], m_input[2]) * 100
          = MOTION_THRESHOLD_PCT * FRAME_WIDTH * FRAME_HEIGHT
    /\ ~m_output[2]

(* C18: the baseline is replaced by the current frame's filtered intensity  *)
(* on every call, whether or not motion was reported, so a frame is always  *)
(* compared with the frame classified just before it: for frames A # B the  *)
(* sequence A, B, B classifies the third frame as no motion.                *)
C18_BaselineFollowsLastFrame ==
    /\ Len(m_output) >= 1 => previous_gray = Smoothed(m_input[Len(m_output)])
    /\ \A i \in 3..Len(m_output) :
          (m_input[i - 2] # m_input[i - 1] /\ m_input[i - 1] = m_input[i])
              => ~m_output[i]

\* A, B, B with motion reported for the second frame and not for the third
C18_Witness ==
    /\ Len(m_output) = 3
    /\ m_input[1] # m_input[2]
    /\ m_input[2] = m_input[3]
    /\ m_output[2]
    /\ ~m_output[3]

\* the frames that have a record in some written metadata file
RecordedFrames ==
    {FramesOf(Flatten(metadata_writes))[i] :
        i \in 1..Len(Flatten(metadata_writes))}

(* C16: after a graceful shutdown has completed, every frame that was       *)
(* admitted to the buffer and not evicted by an overflowing put has been    *)
(* taken by the processing worker and has a record in a written metadata    *)
(* file. A frame still in the buffer was admitted, not evicted, not taken.  *)
C16_NoBufferedFrameLost ==
    pc_m = "done" =>
        /\ \A i \in 1..Len(frame_buffer) : frame_buffer[i] \in RecordedFrames
        /\ \A i \in 1..Len(take_log) : take_log[i] \in RecordedFrames

(* C17: cancellation is observed once per loop iteration: after            *)
(* shutdown_event is set the capture worker admits at most one more frame  *)
(* to the buffer and the processing worker handles (classifies, writes,    *)
(* records) at most one more frame.                                         *)
C17_AtMostOneAfterCancel ==
    /\ puts_after_set <= 1
    /\ handled_after_set <= 1

\* both workers have terminated and each did one more frame after the signal
C17_Witness ==
    /\ shutdown_event
    /\ pc_c = "done"
    /\ pc_p = "done"
    /\ puts_after_set = 1
    /\ handled_after_set = 1

\* the processing thread executes lines 128-137
Rotates == pc_p = "rotate" /\ pc_p' # "rotate"

(* C19: with a clock that never goes back, a segment is never rotated       *)
(* before the rotation interval has elapsed since its own start time; the   *)
(* start time is reset to the rotation instant, so consecutive segments     *)
(* start at least one interval apart; and an iteration that finds the       *)
(* buffer empty handles no frame, rotates nothing and writes no metadata:   *)
(* a rotation always follows the handling of a frame.                       *)
C19_NoEarlyRotation ==
    /\ [][ Rotates =>
             /\ IntervalElapsed(now, current_time)
             /\ current_time' = now
             /\ metadata_list # << >>
             /\ metadata_list[Len(metadata_list)].frame = p_frame ]_vars
    /\ [] ( \A i \in 1..(Len(video_files) - 1) :
               video_files[i + 1].path - video_files[i].path
                   >= RotationSeconds )
    /\ [][ (pc_p = "empty_check" /\ empty(frame_buffer) /\ pc_p' # pc_p) =>
             /\ pc_p' = "loop"
             /\ video_files' = video_files
             /\ metadata_writes' = metadata_writes
             /\ metadata_list' = metadata_list ]_vars

\* two rotations have happened, and the buffer was found empty in between
C19_Witness ==
    /\ Len(video_files) = 3
    /\ Len(metadata_writes) = 2
    /\ pc_p = "empty_check"
    /\ empty(frame_buffer)

(* C20: for every segment, when its metadata is flushed (at rotation or at  *)
(* shutdown) the frames appended to its video writer are as many as the     *)
(* records of its metadata list and the i-th record describes the i-th      *)
(* frame; every frame taken from the buffer and handled has one video       *)
(* append and one record, in the same segment.                              *)
C20_RecordsMatchVideo ==
    /\ Len(metadata_writes) <= Len(video_files)
    /\ \A i \in 1..Len(metadata_writes) :
          FramesOf(metadata_writes[i].content) = video_files[i].frames
    /\ Len(metadata_writes) < Len(video_files) =>
          FramesOf(metadata_list) = video_files[Len(video_files)].frames
    /\ pc_p = "done" =>
          /\ Len(metadata_writes) = Len(video_files)
          /\ FramesOf(Flatten(metadata_writes)) = take_log

\* one segment flushed at rotation with two records, the next at shutdown
C20_Witness ==
    /\ pc_p = "done"
    /\ Len(metadata_writes) = 2
    /\ Len(metadata_writes[1].content) = 2
    /\ Len(metadata_writes[2].content) = 1

====
